---------------------------- MODULE Spec2Model ----------------------------
(***************************************************************************)
(* g502d: the mouse IO thread, the keyboard INPUT thread and the keyboard  *)
(* OUTPUT thread of src/g502d.c, sharing the ring buffer kb_event_buffer   *)
(* (head, tail), the mutex kb_buffer_mutex and the semaphore kb_event_sem. *)
(* Every step of a thread holds at most one access to shared memory, so    *)
(* that the interleavings of the model are those of the threads.           *)
(***************************************************************************)
EXTENDS Integers, Sequences, FiniteSets, TLC

(***************************************************************************)
(* Bounds of the model.                                                    *)
(***************************************************************************)
\* Slots of the ring buffer. The program has 1<<18 (src/g502d.c:154); the
\* model keeps the arithmetic modulo the size and scales the size down.
EVENT_BUFFER_SIZE == 3
\* The pipeline specification: events the pointing device delivers,
MaxMouseEvents == 2
\* events the keyboard delivers,
MaxKbEvents == 1
\* and failed reads of the open keyboard handle.
MaxReadFail == 1
\* The transport specification: reads of both devices, failed ones included.
MaxTransportReads == 5
\* The recovery specification: reads and re-acquisitions of both devices.
MaxRecoverSteps == 3
\* The motion specification: REL events read.
MaxRelEvents == 4
\* The startup specification: events read from both devices.
MaxMainReads == 3
\* The write specification: events read and writes refused.
MaxWriteSteps == 4
\* The lock-free specification: events read from both devices.
MaxLockFreeReads == 3
\* The routing specification: events read and writes refused.
MaxRouteSteps == 3
\* The connection specification: reads, failed reads and failed acquisitions
\* of both devices.
MaxConnectSteps == 3

(***************************************************************************)
(* linux/input-event-codes.h, as used by the program.                      *)
(***************************************************************************)
EV_SYN == 0
EV_KEY == 1
EV_REL == 2
EV_ABS == 3
EV_MSC == 4
SYN_REPORT == 0
REL_X == 0
REL_Y == 1
REL_WHEEL == 8
MSC_SERIAL == 0
MSC_SCAN == 4
KEY_LEFTCTRL == 29
KEY_A == 30
KEY_LEFTSHIFT == 42
BTN_LEFT == 272
BTN_RIGHT == 273
BTN_SIDE == 275
BTN_EXTRA == 276

\* Magic scan codes for mouse side buttons (0x90004, 0x90005, 0x70004, 0x70005)
SCAN_BTN_SIDE == 589828
SCAN_BTN_EXTRA == 589829
SCAN_KEY_SHIFT == 458756
SCAN_KEY_CTRL == 458757
\* The scan code of a button that is not remapped (0x90001).
SCAN_BTN_LEFT == 589825

\* config.h: DPI_SCALE is 0.5. The accumulators are kept in halves, so that
\* ev.value * DPI_SCALE is ev.value * DPI_SCALE_HALVES halves.
DPI_SCALE_HALVES == 1

\* Significand of a float: 2^24.
FLT_MANT == 16777216

(***************************************************************************)
(* struct input_event: (time, type, code, value). The timestamp is not     *)
(* interpreted by the program; here it names the device that produced the  *)
(* event and the event's position in that device's stream.                 *)
(***************************************************************************)
Event(ty, co, va, src, n) ==
    [type |-> ty, code |-> co, value |-> va, time |-> <<src, n>>]

\* Static storage and `struct input_event ev = {0}`.
ZeroEvent == Event(0, 0, 0, "none", 0)

Raw(ty, co, va) == [type |-> ty, code |-> co, value |-> va]

Stamp(raw, src, n) == Event(raw.type, raw.code, raw.value, src, n)

Slots == 0 .. (EVENT_BUFFER_SIZE - 1)

VARIABLES
    pc,                    \* position of each thread
    proc,                  \* "running", "exit1" after exit(1), "return1" or
                           \* "return0" after main returned
    main,                  \* position of main
    dropped,               \* events whose write failed, per writing thread
    head,                  \* write index
    tail,                  \* read index
    kb_event_buffer,       \* the ring buffer
    kb_event_sem,          \* value of the semaphore
    kb_buffer_mutex,       \* "free", or the thread that holds the mutex
    next_head,             \* local of send_input_event_to_keyboard, per thread
    ev,                    \* each thread's local struct input_event ev
    fd,                    \* mouse_fd and kb_fd: -1, or an open handle
    consecutive_failures,  \* per producer thread
    err,                   \* errno class of the failed read being reported
    accum_x,               \* in halves
    accum_y,               \* in halves
    sem_value,             \* local of clear_keyboard_buffer
    current_tail,          \* local of keyboard_process_o
    mouse_in,              \* events read from the pointing device so far
    kb_in,                 \* events read from the keyboard so far
    nfail,                 \* failed reads of an open handle, per device
    nretry,                \* failed re-acquisitions, per device
    nopen,                 \* handles opened so far, per device
    open_fds,              \* handles open()ed and not yet close()d, per device
    grabbed,               \* handles that hold EVIOCGRAB, per device
    closed,                \* handles passed to close(), in order, per device
    local_fd,              \* `int fd` of open_and_grab_device, per thread
    mouse_out,             \* events handed to write(args->out_fd) by the mouse thread
    kb_out,                \* events handed to write(args->out_fd) by the OUTPUT thread
    pushed,                \* events stored in the ring buffer, in the order stored
    stale,                 \* Len(pushed) when clear_keyboard_buffer last returned
    slot_live,             \* slots stored by a push, not read since, not cleared
    queue                  \* the queue the transport stands for

vars ==
    <<pc, proc, main, dropped, head, tail, kb_event_buffer, kb_event_sem, kb_buffer_mutex,
      next_head, ev, fd,
      consecutive_failures, err, accum_x, accum_y, sem_value, current_tail,
      mouse_in, kb_in, nfail, nretry, nopen, open_fds, grabbed, closed, local_fd,
      mouse_out, kb_out, pushed, stale, slot_live, queue>>

Producers == {"mouse", "kbi"}

Threads == {"mouse", "kbi", "kbo"}

\* The variables of the transport.
transport == <<head, tail, kb_event_buffer, kb_event_sem, kb_buffer_mutex, next_head>>

\* The variables only the mouse thread and its device touch.
mouse_local == <<accum_x, accum_y, mouse_in, mouse_out>>

\* The device handles of the two connections.
handles == <<open_fds, grabbed, closed, local_fd>>

\* The variables of the recovery paths.
recovery == <<fd, consecutive_failures, err, nfail, nretry, nopen, handles>>

\* Observation variables of the transport.
ghost == <<pushed, stale, slot_live, queue>>

Running == proc = "running"


(***************************************************************************)
(* The motion accumulator: float arithmetic on halves.                     *)
(***************************************************************************)
RECURSIVE Ulp(_)
\* Distance, in halves, between neighbouring floats at magnitude a halves.
Ulp(a) == IF a < FLT_MANT THEN 1 ELSE 2 * Ulp(a \div 2)

Abs(x) == IF x < 0 THEN -x ELSE x

\* Conversion of the exact value h (in halves) to float: round to nearest,
\* ties to the even significand.
ToFloat(h) ==
    LET a == Abs(h)
        u == Ulp(a)
        q == a \div u
        r == a % u
        up == (2 * r > u) \/ (2 * r = u /\ q % 2 = 1)
        m == IF up THEN (q + 1) * u ELSE q * u
    IN  IF h < 0 THEN -m ELSE m

\* (int)roundf(x), x in halves: nearest integer, halfway cases away from zero.
roundf(h) == IF h >= 0 THEN (h + 1) \div 2 ELSE -((-h + 1) \div 2)

\* accum += ev.value * DPI_SCALE; int_move = (int)roundf(accum); accum -= int_move
ScaleStep(accum, value) ==
    LET a1 == ToFloat(accum + value * DPI_SCALE_HALVES)
        int_move == roundf(a1)
    IN  [accum |-> ToFloat(a1 - 2 * int_move), int_move |-> int_move]

(***************************************************************************)
(* The switch of mouse_thread_io_func: the event as rewritten, the         *)
(* accumulators after it, and where the event goes.                        *)
(***************************************************************************)
Translate(e, ax, ay) ==
    CASE e.type = EV_KEY ->
            IF e.code = BTN_SIDE \/ e.code = BTN_EXTRA
            THEN [ev |-> [e EXCEPT !.code = IF e.code = BTN_SIDE
                                               THEN KEY_LEFTSHIFT
                                               ELSE KEY_LEFTCTRL],
                  accum_x |-> ax, accum_y |-> ay, route |-> "keyboard"]
            ELSE [ev |-> e, accum_x |-> ax, accum_y |-> ay, route |-> "mouse"]
      [] e.type = EV_REL ->
            IF e.code = REL_X
            THEN [ev |-> [e EXCEPT !.value = ScaleStep(ax, e.value).int_move],
                  accum_x |-> ScaleStep(ax, e.value).accum, accum_y |-> ay,
                  route |-> "mouse"]
            ELSE IF e.code = REL_Y
            THEN [ev |-> [e EXCEPT !.value = ScaleStep(ay, e.value).int_move],
                  accum_x |-> ax, accum_y |-> ScaleStep(ay, e.value).accum,
                  route |-> "mouse"]
            ELSE [ev |-> e, accum_x |-> ax, accum_y |-> ay, route |-> "mouse"]
      [] e.type = EV_MSC ->
            IF e.code = MSC_SCAN /\ e.value = SCAN_BTN_SIDE
            THEN [ev |-> [e EXCEPT !.value = SCAN_KEY_SHIFT],
                  accum_x |-> ax, accum_y |-> ay, route |-> "keyboard"]
            ELSE IF e.code = MSC_SCAN /\ e.value = SCAN_BTN_EXTRA
            THEN [ev |-> [e EXCEPT !.value = SCAN_KEY_CTRL],
                  accum_x |-> ax, accum_y |-> ay, route |-> "keyboard"]
            ELSE [ev |-> e, accum_x |-> ax, accum_y |-> ay, route |-> "mouse"]
      [] e.type = EV_SYN ->
            [ev |-> e, accum_x |-> ax, accum_y |-> ay, route |-> "both"]
      [] OTHER ->
            [ev |-> e, accum_x |-> ax, accum_y |-> ay, route |-> "mouse"]

(***************************************************************************)
(* What the devices deliver.                                               *)
(***************************************************************************)
\* The events of the pointing device in the pipeline specification.
MouseEvents ==
    { Raw(EV_KEY, BTN_SIDE, 1), Raw(EV_KEY, BTN_SIDE, 0), Raw(EV_SYN, SYN_REPORT, 0) }

\* The events of the keyboard.
KbEvents == { Raw(EV_KEY, KEY_A, 1), Raw(EV_SYN, SYN_REPORT, 0) }

\* What a failed read of an open handle reports: errno, or a short read.
ReadErrors == {"ENODEV", "EINTR", "EIO", "EAGAIN", "EACCES", "UNKNOWN", "SHORT"}

(***************************************************************************)
(* Initial state: main has created the virtual devices, initialised the    *)
(* semaphore to 0 and started the three threads, and waits in its first    *)
(* pthread_join.                                                           *)
(***************************************************************************)
Init ==
    /\ pc = [mouse |-> "open", kbi |-> "open", kbo |-> "o_wait"]
    /\ proc = "running"
    /\ main = "join_mouse"
    /\ dropped = [t \in {"mouse", "kbo"} |-> << >>]
    /\ head = 0
    /\ tail = 0
    /\ kb_event_buffer = [s \in Slots |-> ZeroEvent]
    /\ kb_event_sem = 0
    /\ kb_buffer_mutex = "free"
    /\ next_head = [t \in Producers |-> 0]
    /\ ev = [t \in Threads |-> ZeroEvent]
    /\ fd = [t \in Producers |-> -1]
    /\ consecutive_failures = [t \in Producers |-> 0]
    /\ err = [t \in Producers |-> "none"]
    /\ accum_x = 0
    /\ accum_y = 0
    /\ sem_value = 0
    /\ current_tail = 0
    /\ mouse_in = << >>
    /\ kb_in = << >>
    /\ nfail = [t \in Producers |-> 0]
    /\ nretry = [t \in Producers |-> 0]
    /\ nopen = [t \in Producers |-> 0]
    /\ open_fds = [t \in Producers |-> {}]
    /\ grabbed = [t \in Producers |-> {}]
    /\ closed = [t \in Producers |-> << >>]
    /\ local_fd = [t \in Producers |-> -1]
    /\ mouse_out = << >>
    /\ kb_out = << >>
    /\ pushed = << >>
    /\ stale = 0
    /\ slot_live = [s \in Slots |-> FALSE]
    /\ queue = << >>

Goto(t, label) == pc' = [pc EXCEPT ![t] = label]

(***************************************************************************)
(* find_open_and_grab_device at the start of a producer thread.            *)
(***************************************************************************)
\* The device is found, opened and grabbed.
ThreadOpen(t) ==
    /\ Running
    /\ pc[t] = "open"
    /\ nopen' = [nopen EXCEPT ![t] = @ + 1]
    /\ fd' = [fd EXCEPT ![t] = nopen'[t]]
    /\ open_fds' = [open_fds EXCEPT ![t] = @ \cup {nopen'[t]}]
    /\ grabbed' = [grabbed EXCEPT ![t] = @ \cup {nopen'[t]}]
    /\ Goto(t, "read")
    /\ UNCHANGED <<proc, main, dropped, transport, ev, consecutive_failures, err, nfail, nretry,
                   closed, local_fd,
                   mouse_local, kb_in, kb_out, sem_value, current_tail, ghost>>

\* fd < 0: pthread_exit(NULL).
ThreadOpenFail(t) ==
    /\ Running
    /\ pc[t] = "open"
    /\ Goto(t, "exited")
    /\ UNCHANGED <<proc, main, dropped, transport, ev, recovery, mouse_local, kb_in, kb_out,
                   sem_value, current_tail, ghost>>

(***************************************************************************)
(* send_input_event_to_keyboard, called by thread t with its ev.           *)
(***************************************************************************)
\* Where the caller goes on after the call.
PushReturn(t) ==
    IF t = "mouse" /\ ev[t].type = EV_SYN THEN "write" ELSE "read"

\* next_head == tail
IsFull == (head + 1) % EVENT_BUFFER_SIZE = tail

\* pthread_mutex_lock; next_head != tail.
PushLock(t) ==
    /\ Running
    /\ pc[t] = "p_lock"
    /\ kb_buffer_mutex = "free"
    /\ ~IsFull
    /\ kb_buffer_mutex' = t
    /\ Goto(t, "p_store")
    /\ UNCHANGED <<next_head, proc, main, dropped, head, tail, kb_event_buffer, kb_event_sem, ev, recovery,
                   mouse_local, kb_in, kb_out, sem_value, current_tail, ghost>>

\* pthread_mutex_lock; next_head == tail: exit(1).
PushOverflow(t) ==
    /\ Running
    /\ pc[t] = "p_lock"
    /\ kb_buffer_mutex = "free"
    /\ IsFull
    /\ kb_buffer_mutex' = t
    /\ proc' = "exit1"
    /\ UNCHANGED <<next_head, pc, main, dropped, head, tail, kb_event_buffer, kb_event_sem, ev, recovery,
                   mouse_local, kb_in, kb_out, sem_value, current_tail, ghost>>

\* kb_event_buffer[head] = *ev; head = next_head; pthread_mutex_unlock.
PushStore(t) ==
    /\ Running
    /\ pc[t] = "p_store"
    /\ kb_event_buffer' = [kb_event_buffer EXCEPT ![head] = ev[t]]
    /\ head' = (head + 1) % EVENT_BUFFER_SIZE
    /\ kb_buffer_mutex' = "free"
    /\ pushed' = Append(pushed, ev[t])
    /\ slot_live' = [slot_live EXCEPT ![head] = TRUE]
    /\ queue' = Append(queue, ev[t])
    /\ Goto(t, "p_post")
    /\ UNCHANGED <<next_head, proc, main, dropped, tail, kb_event_sem, ev, recovery, mouse_local, kb_in,
                   kb_out, sem_value, current_tail, stale>>

\* sem_post(&kb_event_sem), and the return to the caller.
PushPost(t) ==
    /\ Running
    /\ pc[t] = "p_post"
    /\ kb_event_sem' = kb_event_sem + 1
    /\ Goto(t, PushReturn(t))
    /\ ev' = [ev EXCEPT ![t] = IF PushReturn(t) = "read" THEN ZeroEvent ELSE @]
    /\ UNCHANGED <<next_head, proc, main, dropped, head, tail, kb_event_buffer, kb_buffer_mutex, recovery,
                   mouse_local, kb_in, kb_out, sem_value, current_tail, ghost>>


(***************************************************************************)
(* The recovery path of a producer thread: reopen_device and its caller.   *)
(***************************************************************************)
\* release_and_close_device(fd): the handles thread t has passed to close()
\* after the call. Nothing is closed when fd < 0.
CloseOf(t, f) == IF f >= 0 THEN Append(closed[t], f) ELSE closed[t]

\* A read failure that ends the thread when access to the device is denied.
ReadFailFatal(t, errors, more) ==
    /\ Running
    /\ pc[t] = "read"
    /\ fd[t] >= 0
    /\ more
    /\ \E e \in errors :
          /\ err' = [err EXCEPT ![t] = e]
          /\ Goto(t, IF e = "EACCES" THEN "exited"
                     ELSE IF t = "kbi" THEN "c_lock" ELSE "reopen")
    /\ nfail' = [nfail EXCEPT ![t] = @ + 1]
    /\ UNCHANGED <<proc, main, dropped, transport, ev, fd, consecutive_failures, nretry, nopen, handles,
                   mouse_local, kb_in, kb_out, sem_value, current_tail, ghost>>

\* A keyboard thread that reopens without clearing the buffer.
ReadFailSkipsPurge(t, errors, more) ==
    /\ Running
    /\ pc[t] = "read"
    /\ fd[t] >= 0
    /\ more
    /\ \E e \in errors : err' = [err EXCEPT ![t] = e]
    /\ nfail' = [nfail EXCEPT ![t] = @ + 1]
    /\ Goto(t, "reopen")
    /\ UNCHANGED <<proc, main, dropped, transport, ev, fd, consecutive_failures, nretry, nopen, handles,
                   mouse_local, kb_in, kb_out, sem_value, current_tail, ghost>>

\* read() of an open handle returns something else than one whole event: an
\* error of `errors`. `more` is the bound on the reads of the run.
ReadFail(t, errors, more) ==
    /\ Running
    /\ pc[t] = "read"
    /\ fd[t] >= 0
    /\ more
    /\ \E e \in errors : err' = [err EXCEPT ![t] = e]
    /\ nfail' = [nfail EXCEPT ![t] = @ + 1]
    /\ Goto(t, IF t = "kbi" THEN "c_lock" ELSE "reopen")
    /\ UNCHANGED <<proc, main, dropped, transport, ev, fd, consecutive_failures, nretry, nopen, handles,
                   mouse_local, kb_in, kb_out, sem_value, current_tail, ghost>>

\* read(-1, ...) after a failed re-acquisition: EBADF.
ReadUnbound(t) ==
    /\ Running
    /\ pc[t] = "read"
    /\ fd[t] < 0
    /\ err' = [err EXCEPT ![t] = "EBADF"]
    /\ Goto(t, IF t = "kbi" THEN "c_lock" ELSE "reopen")
    /\ UNCHANGED <<proc, main, dropped, transport, ev, fd, consecutive_failures, nfail, nretry,
                   nopen, handles, mouse_local, kb_in, kb_out, sem_value, current_tail, ghost>>

\* reopen_device: release_and_close_device(*fd); *fd = -1; sleep(1);
\* find_open_and_grab_device succeeds and reopen_device returns 0. The caller
\* resets consecutive_failures and, in the mouse thread, the accumulators.
ReopenOk(t) ==
    /\ Running
    /\ pc[t] = "reopen"
    /\ nopen' = [nopen EXCEPT ![t] = @ + 1]
    /\ fd' = [fd EXCEPT ![t] = nopen'[t]]
    /\ closed' = [closed EXCEPT ![t] = CloseOf(t, fd[t])]
    /\ open_fds' = [open_fds EXCEPT ![t] = (@ \ {fd[t]}) \cup {nopen'[t]}]
    /\ grabbed' = [grabbed EXCEPT ![t] = (@ \ {fd[t]}) \cup {nopen'[t]}]
    /\ err' = [err EXCEPT ![t] = "none"]
    /\ consecutive_failures' = [consecutive_failures EXCEPT ![t] = 0]
    /\ accum_x' = IF t = "mouse" THEN 0 ELSE accum_x
    /\ accum_y' = IF t = "mouse" THEN 0 ELSE accum_y
    /\ Goto(t, "read")
    /\ UNCHANGED <<proc, main, dropped, transport, ev, nfail, nretry, local_fd, mouse_in, mouse_out, kb_in,
                   kb_out, sem_value, current_tail, ghost>>

\* A thread that gives up when the device does not come back.
ReopenGivesUp(t, more) ==
    /\ Running
    /\ pc[t] = "reopen"
    /\ more
    /\ nretry' = [nretry EXCEPT ![t] = @ + 1]
    /\ fd' = [fd EXCEPT ![t] = -1]
    /\ closed' = [closed EXCEPT ![t] = CloseOf(t, fd[t])]
    /\ open_fds' = [open_fds EXCEPT ![t] = @ \ {fd[t]}]
    /\ grabbed' = [grabbed EXCEPT ![t] = @ \ {fd[t]}]
    /\ err' = [err EXCEPT ![t] = "none"]
    /\ consecutive_failures' = [consecutive_failures EXCEPT ![t] = @ + 1]
    /\ Goto(t, "exited")
    /\ UNCHANGED <<proc, main, dropped, transport, ev, nfail, nopen, local_fd, mouse_local,
                   kb_in, kb_out, sem_value, current_tail, ghost>>

\* reopen_device: release_and_close_device(*fd); *fd = -1; sleep(1);
\* find_open_and_grab_device fails and reopen_device returns -1. The caller
\* counts the failure and sleeps 5 seconds.
ReopenFail(t, more) ==
    /\ Running
    /\ pc[t] = "reopen"
    /\ more
    /\ nretry' = [nretry EXCEPT ![t] = @ + 1]
    /\ fd' = [fd EXCEPT ![t] = -1]
    /\ closed' = [closed EXCEPT ![t] = CloseOf(t, fd[t])]
    /\ open_fds' = [open_fds EXCEPT ![t] = @ \ {fd[t]}]
    /\ grabbed' = [grabbed EXCEPT ![t] = @ \ {fd[t]}]
    /\ err' = [err EXCEPT ![t] = "none"]
    /\ consecutive_failures' = [consecutive_failures EXCEPT ![t] = @ + 1]
    /\ Goto(t, "read")
    /\ UNCHANGED <<proc, main, dropped, transport, ev, nfail, nopen, local_fd, mouse_local, kb_in, kb_out,
                   sem_value, current_tail, ghost>>

(***************************************************************************)
(* clear_keyboard_buffer, called by the keyboard INPUT thread.             *)
(***************************************************************************)
\* A purge that resets both cursors.
ClearResets ==
    /\ Running
    /\ pc["kbi"] = "c_lock"
    /\ kb_buffer_mutex = "free"
    /\ kb_buffer_mutex' = "kbi"
    /\ head' = 0
    /\ tail' = 0
    /\ slot_live' = [s \in Slots |-> FALSE]
    /\ queue' = << >>
    /\ Goto("kbi", "c_get")
    /\ UNCHANGED <<next_head, proc, main, dropped, kb_event_buffer, kb_event_sem, ev, recovery,
                   mouse_local, kb_in, kb_out, sem_value, current_tail, pushed, stale>>

\* pthread_mutex_lock; head = tail.
ClearJump ==
    /\ Running
    /\ pc["kbi"] = "c_lock"
    /\ kb_buffer_mutex = "free"
    /\ kb_buffer_mutex' = "kbi"
    /\ head' = tail
    /\ slot_live' = [s \in Slots |-> FALSE]
    /\ queue' = << >>
    /\ Goto("kbi", "c_get")
    /\ UNCHANGED <<next_head, proc, main, dropped, tail, kb_event_buffer, kb_event_sem, ev, recovery,
                   mouse_local, kb_in, kb_out, sem_value, current_tail, pushed, stale>>

\* sem_getvalue(&kb_event_sem, &sem_value), and the test of the while loop.
ClearGetValue ==
    /\ Running
    /\ pc["kbi"] = "c_get"
    /\ sem_value' = kb_event_sem
    /\ Goto("kbi", IF kb_event_sem > 0 THEN "c_try" ELSE "c_unlock")
    /\ UNCHANGED <<proc, main, dropped, transport, ev, recovery, mouse_local, kb_in, kb_out,
                   current_tail, ghost>>

\* sem_trywait(&kb_event_sem): decrements a positive semaphore, else fails.
ClearTryWait ==
    /\ Running
    /\ pc["kbi"] = "c_try"
    /\ kb_event_sem' = IF kb_event_sem > 0 THEN kb_event_sem - 1 ELSE kb_event_sem
    /\ Goto("kbi", "c_get")
    /\ UNCHANGED <<next_head, proc, main, dropped, head, tail, kb_event_buffer, kb_buffer_mutex, ev, recovery,
                   mouse_local, kb_in, kb_out, sem_value, current_tail, ghost>>

\* pthread_mutex_unlock, and the return to keyboard_process_i.
ClearUnlock ==
    /\ Running
    /\ pc["kbi"] = "c_unlock"
    /\ kb_buffer_mutex' = "free"
    /\ sem_value' = 0
    /\ stale' = Len(pushed)
    /\ Goto("kbi", "reopen")
    /\ UNCHANGED <<next_head, proc, main, dropped, head, tail, kb_event_buffer, kb_event_sem, ev, recovery,
                   mouse_local, kb_in, kb_out, current_tail, pushed, slot_live, queue>>

(***************************************************************************)
(* mouse_thread_io_func.                                                   *)
(***************************************************************************)
\* A mouse thread that sends every button to the keyboard.
MouseReadRoutesKeys(events, more) ==
    /\ Running
    /\ pc["mouse"] = "read"
    /\ fd["mouse"] >= 0
    /\ more
    /\ \E raw \in events :
          LET r == Translate(Stamp(raw, "mouse", Len(mouse_in) + 1), accum_x, accum_y)
          IN  /\ mouse_in' = Append(mouse_in, raw)
              /\ ev' = [ev EXCEPT !["mouse"] = r.ev]
              /\ accum_x' = r.accum_x
              /\ accum_y' = r.accum_y
              /\ Goto("mouse", IF r.route = "mouse" /\ raw.type # EV_KEY
                               THEN "write" ELSE "p_lock")
    /\ consecutive_failures' = [consecutive_failures EXCEPT !["mouse"] = 0]
    /\ UNCHANGED <<proc, main, dropped, transport, fd, err, nfail, nretry, nopen, handles,
                   mouse_out, kb_in, kb_out, sem_value, current_tail, ghost>>

\* A mouse thread that writes every scan code to its own output.
MouseReadWritesScan(events, more) ==
    /\ Running
    /\ pc["mouse"] = "read"
    /\ fd["mouse"] >= 0
    /\ more
    /\ \E raw \in events :
          LET r == Translate(Stamp(raw, "mouse", Len(mouse_in) + 1), accum_x, accum_y)
          IN  /\ mouse_in' = Append(mouse_in, raw)
              /\ ev' = [ev EXCEPT !["mouse"] = r.ev]
              /\ accum_x' = r.accum_x
              /\ accum_y' = r.accum_y
              /\ Goto("mouse", IF r.route = "mouse" \/ raw.type = EV_MSC
                               THEN "write" ELSE "p_lock")
    /\ consecutive_failures' = [consecutive_failures EXCEPT !["mouse"] = 0]
    /\ UNCHANGED <<proc, main, dropped, transport, fd, err, nfail, nretry, nopen, handles,
                   mouse_out, kb_in, kb_out, sem_value, current_tail, ghost>>

\* read(mouse_fd, &ev, ev_size) returns one event, drawn from `events`, and
\* switch (ev.type) rewrites it: the thread goes on to push it or to write it.
MouseRead(events, more) ==
    /\ Running
    /\ pc["mouse"] = "read"
    /\ fd["mouse"] >= 0
    /\ more
    /\ \E raw \in events :
          LET r == Translate(Stamp(raw, "mouse", Len(mouse_in) + 1), accum_x, accum_y)
          IN  /\ mouse_in' = Append(mouse_in, raw)
              /\ ev' = [ev EXCEPT !["mouse"] = r.ev]
              /\ accum_x' = r.accum_x
              /\ accum_y' = r.accum_y
              /\ Goto("mouse", IF r.route = "mouse" THEN "write" ELSE "p_lock")
    /\ consecutive_failures' = [consecutive_failures EXCEPT !["mouse"] = 0]
    /\ UNCHANGED <<proc, main, dropped, transport, fd, err, nfail, nretry, nopen, handles, mouse_out, kb_in,
                   kb_out, sem_value, current_tail, ghost>>

\* write(args->out_fd, &ev, ev_size), and the next iteration.
MouseWrite ==
    /\ Running
    /\ pc["mouse"] = "write"
    /\ mouse_out' = Append(mouse_out, ev["mouse"])
    /\ ev' = [ev EXCEPT !["mouse"] = ZeroEvent]
    /\ Goto("mouse", "read")
    /\ UNCHANGED <<proc, main, dropped, transport, recovery, accum_x, accum_y, mouse_in, kb_in,
                   kb_out, sem_value, current_tail, ghost>>

\* write(args->out_fd, &ev, ev_size) returns something else than ev_size: the
\* failure is reported on stderr, and the next iteration follows.
MouseWriteFail(more) ==
    /\ Running
    /\ pc["mouse"] = "write"
    /\ more
    /\ dropped' = [dropped EXCEPT !["mouse"] = Append(@, ev["mouse"])]
    /\ ev' = [ev EXCEPT !["mouse"] = ZeroEvent]
    /\ Goto("mouse", "read")
    /\ UNCHANGED <<proc, main, transport, recovery, mouse_local, kb_in, kb_out,
                   sem_value, current_tail, ghost>>

(***************************************************************************)
(* keyboard_process_i.                                                     *)
(***************************************************************************)
\* A keyboard thread that pushes every event as a release.
KbReadClearsValue(events, more) ==
    /\ Running
    /\ pc["kbi"] = "read"
    /\ fd["kbi"] >= 0
    /\ more
    /\ \E raw \in events :
          /\ kb_in' = Append(kb_in, raw)
          /\ ev' = [ev EXCEPT !["kbi"] =
                       Event(raw.type, raw.code, 0, "kbi", Len(kb_in) + 1)]
    /\ consecutive_failures' = [consecutive_failures EXCEPT !["kbi"] = 0]
    /\ Goto("kbi", "p_lock")
    /\ UNCHANGED <<proc, main, dropped, transport, fd, err, nfail, nretry, nopen, handles,
                   mouse_local, kb_out, sem_value, current_tail, ghost>>

\* read(kb_fd, &ev, sizeof(ev)) returns one event, drawn from `events`; it is
\* pushed as read.
KbRead(events, more) ==
    /\ Running
    /\ pc["kbi"] = "read"
    /\ fd["kbi"] >= 0
    /\ more
    /\ \E raw \in events :
          /\ kb_in' = Append(kb_in, raw)
          /\ ev' = [ev EXCEPT !["kbi"] = Stamp(raw, "kbi", Len(kb_in) + 1)]
    /\ consecutive_failures' = [consecutive_failures EXCEPT !["kbi"] = 0]
    /\ Goto("kbi", "p_lock")
    /\ UNCHANGED <<proc, main, dropped, transport, fd, err, nfail, nretry, nopen, handles, mouse_local,
                   kb_out, sem_value, current_tail, ghost>>

(***************************************************************************)
(* keyboard_process_o.                                                     *)
(***************************************************************************)
\* The queue after its oldest element is taken; an empty queue has none.
Rest(q) == IF q = << >> THEN << >> ELSE Tail(q)

\* sem_wait(&kb_event_sem) returns 0.
OutWait ==
    /\ Running
    /\ pc["kbo"] = "o_wait"
    /\ kb_event_sem > 0
    /\ kb_event_sem' = kb_event_sem - 1
    /\ Goto("kbo", "o_read")
    /\ UNCHANGED <<next_head, proc, main, dropped, head, tail, kb_event_buffer, kb_buffer_mutex, ev, recovery,
                   mouse_local, kb_in, kb_out, sem_value, current_tail, ghost>>

\* One of x and y, field by field.
Mix(x, y) ==
    { [type |-> a.type, code |-> b.code, value |-> c.value, time |-> d.time] :
         a \in {x, y}, b \in {x, y}, c \in {x, y}, d \in {x, y} }

\* What a read of slot s yields. The read is not under the mutex: while a
\* producer is storing into the same slot, the read races with the store and
\* yields the old struct, the new one, or some fields of each.
ReadSlot(s) ==
    IF \E t \in Producers : pc[t] = "p_store" /\ head = s
    THEN LET t == CHOOSE u \in Producers : pc[u] = "p_store"
         IN  Mix(kb_event_buffer[s], ev[t])
    ELSE {kb_event_buffer[s]}

\* current_tail = atomic_load(&tail); ev = kb_event_buffer[current_tail].
OutRead ==
    /\ Running
    /\ pc["kbo"] = "o_read"
    /\ current_tail' = tail
    /\ \E e \in ReadSlot(tail) : ev' = [ev EXCEPT !["kbo"] = e]
    /\ slot_live' = [slot_live EXCEPT ![tail] = FALSE]
    /\ Goto("kbo", "o_write")
    /\ UNCHANGED <<proc, main, dropped, transport, recovery, mouse_local, kb_in, kb_out, sem_value,
                   pushed, stale, queue>>

\* atomic_store(&tail, (current_tail + 1) % EVENT_BUFFER_SIZE);
\* write(args->out_fd, &ev, sizeof(ev)), and the next iteration.
OutWrite ==
    /\ Running
    /\ pc["kbo"] = "o_write"
    /\ tail' = (current_tail + 1) % EVENT_BUFFER_SIZE
    /\ current_tail' = 0
    /\ kb_out' = Append(kb_out, ev["kbo"])
    /\ queue' = Rest(queue)
    /\ ev' = [ev EXCEPT !["kbo"] = ZeroEvent]
    /\ Goto("kbo", "o_wait")
    /\ UNCHANGED <<next_head, proc, main, dropped, head, kb_event_buffer, kb_event_sem, kb_buffer_mutex,
                   recovery, mouse_local, kb_in, sem_value, pushed, stale, slot_live>>

\* An OUTPUT thread that moves tail only when the write succeeded.
OutWriteFailKeepsTail(more) ==
    /\ Running
    /\ pc["kbo"] = "o_write"
    /\ more
    /\ current_tail' = 0
    /\ dropped' = [dropped EXCEPT !["kbo"] = Append(@, ev["kbo"])]
    /\ ev' = [ev EXCEPT !["kbo"] = ZeroEvent]
    /\ Goto("kbo", "o_wait")
    /\ UNCHANGED <<proc, main, transport, recovery, mouse_local, kb_in, kb_out,
                   sem_value, ghost>>

\* atomic_store(&tail, (current_tail + 1) % EVENT_BUFFER_SIZE);
\* write(args->out_fd, &ev, sizeof(ev)) returns something else than
\* sizeof(ev): the failure is reported on stderr, and the next iteration
\* follows.
OutWriteFail(more) ==
    /\ Running
    /\ pc["kbo"] = "o_write"
    /\ more
    /\ tail' = (current_tail + 1) % EVENT_BUFFER_SIZE
    /\ current_tail' = 0
    /\ dropped' = [dropped EXCEPT !["kbo"] = Append(@, ev["kbo"])]
    /\ queue' = Rest(queue)
    /\ ev' = [ev EXCEPT !["kbo"] = ZeroEvent]
    /\ Goto("kbo", "o_wait")
    /\ UNCHANGED <<next_head, proc, main, head, kb_event_buffer, kb_event_sem, kb_buffer_mutex,
                   recovery, mouse_local, kb_in, kb_out, sem_value, pushed, stale, slot_live>>

(***************************************************************************)
(* The steps every specification shares.                                   *)
(***************************************************************************)
Push(t) == PushLock(t) \/ PushOverflow(t) \/ PushStore(t) \/ PushPost(t)

Clear == ClearJump \/ ClearGetValue \/ ClearTryWait \/ ClearUnlock

KbOutputThread == OutWait \/ OutRead \/ OutWrite

(***************************************************************************)
(* The pipeline: the three threads, a keyboard that may fail and come      *)
(* back, and the side button, its release and the frame marker on the      *)
(* pointing device.                                                        *)
(***************************************************************************)
MouseThread ==
    \/ ThreadOpen("mouse")
    \/ MouseRead(MouseEvents, Len(mouse_in) < MaxMouseEvents)
    \/ MouseWrite
    \/ Push("mouse")

KbInputThread ==
    \/ ThreadOpen("kbi")
    \/ KbRead(KbEvents, Len(kb_in) < MaxKbEvents)
    \/ Push("kbi")
    \/ ReadFail("kbi", {"ENODEV"}, nfail["kbi"] < MaxReadFail)
    \/ Clear
    \/ ReopenOk("kbi")

Next == MouseThread \/ KbInputThread \/ KbOutputThread

Spec == Init /\ [][Next]_vars

(***************************************************************************)
(* The transport: the two producers with one event each to repeat, a       *)
(* keyboard that may fail and come back, and the consumer.                 *)
(***************************************************************************)
TransportReads == Len(mouse_in) + Len(kb_in) + nfail["kbi"]

TransportNext ==
    \/ ThreadOpen("mouse")
    \/ MouseRead({Raw(EV_KEY, BTN_SIDE, 1)}, TransportReads < MaxTransportReads)
    \/ Push("mouse")
    \/ ThreadOpen("kbi")
    \/ KbRead({Raw(EV_KEY, KEY_A, 1)}, TransportReads < MaxTransportReads)
    \/ Push("kbi")
    \/ ReadFail("kbi", {"ENODEV"}, TransportReads < MaxTransportReads)
    \/ Clear
    \/ ReopenOk("kbi")
    \/ KbOutputThread

SpecTransport == Init /\ [][TransportNext]_vars

(***************************************************************************)
(* Recovery: both devices may fail a read in every way, may be missing     *)
(* when the thread starts and may stay away for some passes of the retry.  *)
(***************************************************************************)
RecoverSteps ==
    Len(mouse_in) + Len(kb_in) + nfail["mouse"] + nfail["kbi"]
        + nretry["mouse"] + nretry["kbi"]

RecoverNext ==
    \/ \E t \in Producers :
          \/ ThreadOpen(t)
          \/ ThreadOpenFail(t)
          \/ ReadFail(t, ReadErrors, RecoverSteps < MaxRecoverSteps)
          \/ ReadUnbound(t)
          \/ ReopenOk(t)
          \/ ReopenFail(t, RecoverSteps < MaxRecoverSteps)
          \/ Push(t)
    \/ MouseRead({Raw(EV_KEY, BTN_LEFT, 1), Raw(EV_SYN, SYN_REPORT, 0)},
                 RecoverSteps < MaxRecoverSteps)
    \/ MouseWrite
    \/ KbRead({Raw(EV_KEY, KEY_A, 1)}, RecoverSteps < MaxRecoverSteps)
    \/ Clear
    \/ KbOutputThread

SpecRecover == Init /\ [][RecoverNext]_vars

\* The scheduler runs every thread that can take a step of its own; what the
\* devices do (deliver an event, fail a read, stay away) is under no
\* obligation.
RecoverFairness ==
    /\ \A t \in Producers : WF_vars(Push(t) \/ ReadUnbound(t) \/ ReopenOk(t))
    /\ WF_vars(Clear)
    /\ WF_vars(MouseWrite)
    /\ WF_vars(KbOutputThread)

SpecRecoverFair == SpecRecover /\ RecoverFairness

(***************************************************************************)
(* Motion: the mouse thread alone, on one connection, reading REL events.  *)
(***************************************************************************)
\* Raw REL values: small ones of both signs, and one that half of which is
\* no float.
RelValues == {1, -1, 3, FLT_MANT + 1}

RelEvents ==
    {Raw(EV_REL, REL_X, v) : v \in RelValues}
        \cup {Raw(EV_REL, REL_Y, v) : v \in RelValues}
        \cup {Raw(EV_REL, REL_WHEEL, 1)}

MotionNext ==
    \/ ThreadOpen("mouse")
    \/ MouseRead(RelEvents, Len(mouse_in) < MaxRelEvents)
    \/ MouseWrite

SpecMotion == Init /\ [][MotionNext]_vars

(***************************************************************************)
(* main: the two devices are located, the virtual devices are created, the *)
(* semaphore is initialised, the three threads are created and joined.     *)
(***************************************************************************)
LocateLabels == {"find_g502", "find_kb"}

CreateLabels == {"create_kbo", "create_kbi", "create_mouse"}

JoinLabels == {"join_mouse", "join_kbi", "join_kbo"}

\* The statement of main after the one at label m.
NextLabel(m) ==
    CASE m = "find_g502" -> "find_kb"
      [] m = "find_kb" -> "uinput"
      [] m = "uinput" -> "sem_init"
      [] m = "sem_init" -> "create_kbo"
      [] m = "create_kbo" -> "create_kbi"
      [] m = "create_kbi" -> "create_mouse"
      [] m = "create_mouse" -> "join_mouse"
      [] m = "join_mouse" -> "join_kbi"
      [] m = "join_kbi" -> "join_kbo"
      [] OTHER -> "cleanup"

\* The thread a pthread_create or a pthread_join of main is about.
ThreadAt(m) ==
    CASE m \in {"create_mouse", "join_mouse"} -> "mouse"
      [] m \in {"create_kbi", "join_kbi"} -> "kbi"
      [] OTHER -> "kbo"

\* Where a created thread starts.
StartLabel(t) == IF t = "kbo" THEN "o_wait" ELSE "open"

\* Both uinput devices exist.
VirtualDevicesCreated == main \in {"sem_init", "cleanup"} \cup CreateLabels \cup JoinLabels

\* The state when main starts: no thread exists.
InitMain ==
    /\ pc = [t \in Threads |-> "unborn"]
    /\ proc = "running"
    /\ main = "find_g502"
    /\ dropped = [t \in {"mouse", "kbo"} |-> << >>]
    /\ head = 0
    /\ tail = 0
    /\ kb_event_buffer = [s \in Slots |-> ZeroEvent]
    /\ kb_event_sem = 0
    /\ kb_buffer_mutex = "free"
    /\ next_head = [t \in Producers |-> 0]
    /\ ev = [t \in Threads |-> ZeroEvent]
    /\ fd = [t \in Producers |-> -1]
    /\ consecutive_failures = [t \in Producers |-> 0]
    /\ err = [t \in Producers |-> "none"]
    /\ accum_x = 0
    /\ accum_y = 0
    /\ sem_value = 0
    /\ current_tail = 0
    /\ mouse_in = << >>
    /\ kb_in = << >>
    /\ nfail = [t \in Producers |-> 0]
    /\ nretry = [t \in Producers |-> 0]
    /\ nopen = [t \in Producers |-> 0]
    /\ open_fds = [t \in Producers |-> {}]
    /\ grabbed = [t \in Producers |-> {}]
    /\ closed = [t \in Producers |-> << >>]
    /\ local_fd = [t \in Producers |-> -1]
    /\ mouse_out = << >>
    /\ kb_out = << >>
    /\ pushed = << >>
    /\ stale = 0
    /\ slot_live = [s \in Slots |-> FALSE]
    /\ queue = << >>

\* What no statement of main before the joins touches.
main_frame ==
    <<dropped, transport, ev, recovery, mouse_local, kb_in, kb_out, sem_value,
      current_tail, ghost>>

\* A find_event_device of main that returns 0 when the device is missing.
MainLocateReturnsZero ==
    /\ Running
    /\ main \in LocateLabels
    /\ \/ main' = NextLabel(main) /\ proc' = proc
       \/ main' = main /\ proc' = "return0"
    /\ UNCHANGED <<pc, main_frame>>

\* find_event_device: the device is found, or it is not and main returns 1.
MainLocate ==
    /\ Running
    /\ main \in LocateLabels
    /\ \/ main' = NextLabel(main) /\ proc' = proc
       \/ main' = main /\ proc' = "return1"
    /\ UNCHANGED <<pc, main_frame>>

\* open("/dev/uinput") and the ioctls that create the two virtual devices: all
\* succeed, or one fails and main returns 1.
MainCreateVirtualDevices ==
    /\ Running
    /\ main = "uinput"
    /\ \/ main' = NextLabel(main) /\ proc' = proc
       \/ main' = main /\ proc' = "return1"
    /\ UNCHANGED <<pc, main_frame>>

\* sem_init(&kb_event_sem, 0, 0), or its failure and return 1.
MainSemInit ==
    /\ Running
    /\ main = "sem_init"
    /\ \/ main' = NextLabel(main) /\ proc' = proc /\ kb_event_sem' = 0
       \/ main' = main /\ proc' = "return1" /\ kb_event_sem' = kb_event_sem
    /\ UNCHANGED <<next_head, pc, dropped, head, tail, kb_event_buffer, kb_buffer_mutex, ev,
                   recovery, mouse_local, kb_in, kb_out, sem_value, current_tail,
                   ghost>>

\* pthread_create: the thread starts, or pthread_create fails and main
\* returns 1.
MainCreateThread ==
    /\ Running
    /\ main \in CreateLabels
    /\ \/ /\ main' = NextLabel(main)
          /\ proc' = proc
          /\ pc' = [pc EXCEPT ![ThreadAt(main)] = StartLabel(ThreadAt(main))]
       \/ main' = main /\ proc' = "return1" /\ pc' = pc
    /\ UNCHANGED main_frame

\* A main that does not join the OUTPUT thread.
MainJoinsProducers ==
    /\ Running
    /\ main \in JoinLabels
    /\ main = "join_kbo" \/ pc[ThreadAt(main)] = "exited"
    /\ main' = NextLabel(main)
    /\ proc' = IF main = "join_kbo" THEN "return0" ELSE proc
    /\ UNCHANGED <<pc, main_frame>>

\* pthread_join returns when the thread has ended; after the third join main
\* cleans up and returns 0.
MainJoin ==
    /\ Running
    /\ main \in JoinLabels
    /\ pc[ThreadAt(main)] = "exited"
    /\ main' = NextLabel(main)
    /\ proc' = IF main = "join_kbo" THEN "return0" ELSE proc
    /\ UNCHANGED <<pc, main_frame>>

MainReads == Len(mouse_in) + Len(kb_in)

MainNext ==
    \/ MainLocate
    \/ MainCreateVirtualDevices
    \/ MainSemInit
    \/ MainCreateThread
    \/ MainJoin
    \/ \E t \in Producers : ThreadOpen(t) \/ ThreadOpenFail(t) \/ Push(t)
    \/ MouseRead({Raw(EV_KEY, BTN_SIDE, 1), Raw(EV_SYN, SYN_REPORT, 0)},
                 MainReads < MaxMainReads)
    \/ MouseWrite
    \/ KbRead({Raw(EV_KEY, KEY_A, 1)}, MainReads < MaxMainReads)
    \/ KbOutputThread

SpecMain == InitMain /\ [][MainNext]_vars

(***************************************************************************)
(* Writes: both virtual devices may refuse a write.                        *)
(***************************************************************************)
WriteSteps ==
    Len(mouse_in) + Len(kb_in) + Len(dropped["mouse"]) + Len(dropped["kbo"])

WriteNext ==
    \/ \E t \in Producers : ThreadOpen(t) \/ Push(t)
    \/ MouseRead({Raw(EV_SYN, SYN_REPORT, 0)}, WriteSteps < MaxWriteSteps)
    \/ MouseWrite
    \/ MouseWriteFail(WriteSteps < MaxWriteSteps)
    \/ KbRead({Raw(EV_KEY, KEY_A, 1)}, WriteSteps < MaxWriteSteps)
    \/ KbOutputThread
    \/ OutWriteFail(WriteSteps < MaxWriteSteps)

SpecWrite == Init /\ [][WriteNext]_vars

(***************************************************************************)
(* Routing: the mouse thread alone with the OUTPUT thread, reading an      *)
(* event for every branch of the switch.                                   *)
(***************************************************************************)
RouteEvents ==
    { Raw(EV_KEY, BTN_LEFT, 1), Raw(EV_KEY, BTN_RIGHT, 0),
      Raw(EV_KEY, BTN_SIDE, 1), Raw(EV_KEY, BTN_EXTRA, 1),
      Raw(EV_REL, REL_X, 2), Raw(EV_REL, REL_WHEEL, 1),
      Raw(EV_MSC, MSC_SCAN, SCAN_BTN_SIDE), Raw(EV_MSC, MSC_SCAN, SCAN_BTN_EXTRA),
      Raw(EV_MSC, MSC_SCAN, SCAN_BTN_LEFT), Raw(EV_MSC, MSC_SERIAL, SCAN_BTN_SIDE),
      Raw(EV_ABS, REL_X, 5),
      Raw(EV_SYN, SYN_REPORT, 0) }

RouteSteps == Len(mouse_in) + Len(dropped["mouse"])

RouteNext ==
    \/ ThreadOpen("mouse")
    \/ MouseRead(RouteEvents, RouteSteps < MaxRouteSteps)
    \/ MouseWrite
    \/ MouseWriteFail(RouteSteps < MaxRouteSteps)
    \/ Push("mouse")
    \/ KbOutputThread

SpecRoute == Init /\ [][RouteNext]_vars

(***************************************************************************)
(* The connections, call by call: find_open_and_grab_device at the start   *)
(* of a producer thread and in reopen_device, with the handle of every     *)
(* open(), ioctl(EVIOCGRAB) and close().                                   *)
(***************************************************************************)
\* Where a thread is in find_event_device, in open() and in ioctl(EVIOCGRAB, 1).
FindLabels == {"open", "r_find"}

OpenLabels == {"open_fd", "r_open"}

GrabLabels == {"open_grab", "r_grab"}

\* The call of find_open_and_grab_device the thread is in: the one at the
\* start of the thread, or the one of reopen_device.
AtStart(t) == pc[t] \in {"open", "open_fd", "open_grab"}

\* find_open_and_grab_device returns -1. At the start of the thread:
\* pthread_exit(NULL). In reopen_device: *fd = -1, return -1, and the caller
\* counts the failure, sleeps and reads again.
NotAcquired(t) ==
    /\ fd' = [fd EXCEPT ![t] = -1]
    /\ err' = [err EXCEPT ![t] = "none"]
    /\ nretry' = [nretry EXCEPT ![t] = IF AtStart(t) THEN @ ELSE @ + 1]
    /\ consecutive_failures' =
          [consecutive_failures EXCEPT ![t] = IF AtStart(t) THEN @ ELSE @ + 1]
    /\ Goto(t, IF AtStart(t) THEN "exited" ELSE "read")

\* release_and_close_device(*fd): ioctl(fd, EVIOCGRAB, 0) and close(fd) when
\* fd >= 0; *fd = -1; sleep(1).
DeviceRelease(t) ==
    /\ Running
    /\ pc[t] = "reopen"
    /\ closed' = [closed EXCEPT ![t] = CloseOf(t, fd[t])]
    /\ open_fds' = [open_fds EXCEPT ![t] = @ \ {fd[t]}]
    /\ grabbed' = [grabbed EXCEPT ![t] = @ \ {fd[t]}]
    /\ fd' = [fd EXCEPT ![t] = -1]
    /\ Goto(t, "r_find")
    /\ UNCHANGED <<proc, main, dropped, transport, ev, consecutive_failures, err, nfail,
                   nretry, nopen, local_fd, mouse_local, kb_in, kb_out, sem_value,
                   current_tail, ghost>>

\* find_event_device returns a path.
DeviceFind(t) ==
    /\ Running
    /\ pc[t] \in FindLabels
    /\ Goto(t, IF AtStart(t) THEN "open_fd" ELSE "r_open")
    /\ UNCHANGED <<proc, main, dropped, transport, ev, recovery, mouse_local, kb_in, kb_out,
                   sem_value, current_tail, ghost>>

\* find_event_device returns NULL: the device is not there.
DeviceFindFail(t, more) ==
    /\ Running
    /\ pc[t] \in FindLabels
    /\ more
    /\ NotAcquired(t)
    /\ UNCHANGED <<proc, main, dropped, transport, ev, nfail, nopen, handles, mouse_local,
                   kb_in, kb_out, sem_value, current_tail, ghost>>

\* open(device_path, O_RDONLY) returns a handle.
DeviceOpen(t) ==
    /\ Running
    /\ pc[t] \in OpenLabels
    /\ nopen' = [nopen EXCEPT ![t] = @ + 1]
    /\ local_fd' = [local_fd EXCEPT ![t] = nopen'[t]]
    /\ open_fds' = [open_fds EXCEPT ![t] = @ \cup {nopen'[t]}]
    /\ Goto(t, IF AtStart(t) THEN "open_grab" ELSE "r_grab")
    /\ UNCHANGED <<proc, main, dropped, transport, ev, fd, consecutive_failures, err, nfail,
                   nretry, grabbed, closed, mouse_local, kb_in, kb_out, sem_value,
                   current_tail, ghost>>

\* open(device_path, O_RDONLY) < 0.
DeviceOpenFail(t, more) ==
    /\ Running
    /\ pc[t] \in OpenLabels
    /\ more
    /\ NotAcquired(t)
    /\ UNCHANGED <<proc, main, dropped, transport, ev, nfail, nopen, handles, mouse_local,
                   kb_in, kb_out, sem_value, current_tail, ghost>>

\* A rejected grab that leaves the handle open.
DeviceGrabFailLeaks(t, more) ==
    /\ Running
    /\ pc[t] \in GrabLabels
    /\ more
    /\ local_fd' = [local_fd EXCEPT ![t] = -1]
    /\ NotAcquired(t)
    /\ UNCHANGED <<proc, main, dropped, transport, ev, nfail, nopen, open_fds, grabbed,
                   closed, mouse_local, kb_in, kb_out, sem_value, current_tail, ghost>>

\* ioctl(fd, EVIOCGRAB, 1) < 0: close(fd), return -1.
DeviceGrabFail(t, more) ==
    /\ Running
    /\ pc[t] \in GrabLabels
    /\ more
    /\ closed' = [closed EXCEPT ![t] = CloseOf(t, local_fd[t])]
    /\ open_fds' = [open_fds EXCEPT ![t] = @ \ {local_fd[t]}]
    /\ local_fd' = [local_fd EXCEPT ![t] = -1]
    /\ NotAcquired(t)
    /\ UNCHANGED <<proc, main, dropped, transport, ev, nfail, nopen, grabbed, mouse_local,
                   kb_in, kb_out, sem_value, current_tail, ghost>>

\* A reconnection that keeps the accumulators.
DeviceGrabKeepsAccum(t) ==
    /\ Running
    /\ pc[t] \in GrabLabels
    /\ grabbed' = [grabbed EXCEPT ![t] = @ \cup {local_fd[t]}]
    /\ fd' = [fd EXCEPT ![t] = local_fd[t]]
    /\ local_fd' = [local_fd EXCEPT ![t] = -1]
    /\ err' = [err EXCEPT ![t] = "none"]
    /\ consecutive_failures' =
          [consecutive_failures EXCEPT ![t] = IF AtStart(t) THEN @ ELSE 0]
    /\ Goto(t, "read")
    /\ UNCHANGED <<proc, main, dropped, transport, ev, nfail, nretry, nopen, open_fds,
                   closed, mouse_local, kb_in, kb_out, sem_value, current_tail,
                   ghost>>

\* ioctl(fd, EVIOCGRAB, 1) succeeds and the handle is returned. In
\* reopen_device the caller resets consecutive_failures and, in the mouse
\* thread, the accumulators.
DeviceGrab(t) ==
    /\ Running
    /\ pc[t] \in GrabLabels
    /\ grabbed' = [grabbed EXCEPT ![t] = @ \cup {local_fd[t]}]
    /\ fd' = [fd EXCEPT ![t] = local_fd[t]]
    /\ local_fd' = [local_fd EXCEPT ![t] = -1]
    /\ err' = [err EXCEPT ![t] = "none"]
    /\ consecutive_failures' =
          [consecutive_failures EXCEPT ![t] = IF AtStart(t) THEN @ ELSE 0]
    /\ accum_x' = IF t = "mouse" /\ ~AtStart(t) THEN 0 ELSE accum_x
    /\ accum_y' = IF t = "mouse" /\ ~AtStart(t) THEN 0 ELSE accum_y
    /\ Goto(t, "read")
    /\ UNCHANGED <<proc, main, dropped, transport, ev, nfail, nretry, nopen, open_fds,
                   closed, mouse_in, mouse_out, kb_in, kb_out, sem_value, current_tail,
                   ghost>>

\* The events of the pointing device here: motion on both axes, the wheel and
\* the frame marker.
ConnectEvents ==
    { Raw(EV_REL, REL_X, 1), Raw(EV_REL, REL_Y, 1), Raw(EV_REL, REL_WHEEL, 1),
      Raw(EV_SYN, SYN_REPORT, 0) }

\* Reads, failed reads and failed acquisitions of both devices.
ConnectSteps ==
    Len(mouse_in) + Len(kb_in) + nfail["mouse"] + nfail["kbi"]
        + nretry["mouse"] + nretry["kbi"]
        + Cardinality({t \in Producers : pc[t] = "exited"})

ConnectNext ==
    \/ \E t \in Producers :
          \/ DeviceFind(t)
          \/ DeviceFindFail(t, ConnectSteps < MaxConnectSteps)
          \/ DeviceOpen(t)
          \/ DeviceOpenFail(t, ConnectSteps < MaxConnectSteps)
          \/ DeviceGrab(t)
          \/ DeviceGrabFail(t, ConnectSteps < MaxConnectSteps)
          \/ ReadFail(t, {"ENODEV"}, ConnectSteps < MaxConnectSteps)
          \/ ReadUnbound(t)
          \/ DeviceRelease(t)
          \/ Push(t)
    \/ MouseRead(ConnectEvents, ConnectSteps < MaxConnectSteps)
    \/ MouseWrite
    \/ KbRead({Raw(EV_KEY, KEY_A, 1)}, ConnectSteps < MaxConnectSteps)
    \/ Clear
    \/ KbOutputThread

SpecConnect == Init /\ [][ConnectNext]_vars

(***************************************************************************)
(* The lock-free transport of src/unnamed/part_000: the same ring buffer,  *)
(* head, tail and semaphore, no mutex and no purge; a push into a full     *)
(* buffer drops the event. The mouse thread pushes the side buttons only.  *)
(***************************************************************************)
\* Where a thread is in the lock-free send_input_event_to_keyboard.
LockFreeLabels == {"lf_load", "lf_check", "lf_store", "lf_advance", "lf_post"}

\* Both producers have opened their devices and the OUTPUT thread waits.
InitLockFree ==
    /\ pc = [mouse |-> "read", kbi |-> "read", kbo |-> "o_wait"]
    /\ proc = "running"
    /\ main = "join_mouse"
    /\ dropped = [t \in {"mouse", "kbo"} |-> << >>]
    /\ head = 0
    /\ tail = 0
    /\ kb_event_buffer = [s \in Slots |-> ZeroEvent]
    /\ kb_event_sem = 0
    /\ kb_buffer_mutex = "free"
    /\ next_head = [t \in Producers |-> 0]
    /\ ev = [t \in Threads |-> ZeroEvent]
    /\ fd = [t \in Producers |-> 1]
    /\ consecutive_failures = [t \in Producers |-> 0]
    /\ err = [t \in Producers |-> "none"]
    /\ accum_x = 0
    /\ accum_y = 0
    /\ sem_value = 0
    /\ current_tail = 0
    /\ mouse_in = << >>
    /\ kb_in = << >>
    /\ nfail = [t \in Producers |-> 0]
    /\ nretry = [t \in Producers |-> 0]
    /\ nopen = [t \in Producers |-> 1]
    /\ open_fds = [t \in Producers |-> {1}]
    /\ grabbed = [t \in Producers |-> {1}]
    /\ closed = [t \in Producers |-> << >>]
    /\ local_fd = [t \in Producers |-> -1]
    /\ mouse_out = << >>
    /\ kb_out = << >>
    /\ pushed = << >>
    /\ stale = 0
    /\ slot_live = [s \in Slots |-> FALSE]
    /\ queue = << >>

\* What no step of the lock-free push touches besides the transport.
lock_free_frame ==
    <<proc, main, dropped, kb_buffer_mutex, recovery, mouse_local, kb_in, kb_out,
      sem_value, current_tail, stale>>

\* size_t next_head = (head + 1) % EVENT_BUFFER_SIZE.
LockFreePushLoad(t) ==
    /\ Running
    /\ pc[t] = "lf_load"
    /\ next_head' = [next_head EXCEPT ![t] = (head + 1) % EVENT_BUFFER_SIZE]
    /\ Goto(t, "lf_check")
    /\ UNCHANGED <<head, tail, kb_event_buffer, kb_event_sem, ev, pushed, slot_live,
                   queue, lock_free_frame>>

\* next_head == tail: the event is dropped.
LockFreePushFull(t) ==
    /\ Running
    /\ pc[t] = "lf_check"
    /\ next_head[t] = tail
    /\ ev' = [ev EXCEPT ![t] = ZeroEvent]
    /\ Goto(t, "read")
    /\ UNCHANGED <<head, tail, kb_event_buffer, kb_event_sem, next_head, pushed,
                   slot_live, queue, lock_free_frame>>

\* next_head != tail.
LockFreePushCheck(t) ==
    /\ Running
    /\ pc[t] = "lf_check"
    /\ next_head[t] # tail
    /\ Goto(t, "lf_store")
    /\ UNCHANGED <<head, tail, kb_event_buffer, kb_event_sem, next_head, ev, pushed,
                   slot_live, queue, lock_free_frame>>

\* What slot s holds after thread t has copied its event into it. No lock
\* orders the copies of the two producers: when the other producer has copied
\* into the same slot and not moved head yet, the two copies race and the
\* slot holds one of the two structs, or some fields of each.
StoreInto(s, t) ==
    IF \E u \in Producers \ {t} : pc[u] = "lf_advance" /\ head = s
    THEN Mix(kb_event_buffer[s], ev[t])
    ELSE {ev[t]}

\* kb_event_buffer[head] = *ev, with head as it is now.
LockFreePushStore(t) ==
    /\ Running
    /\ pc[t] = "lf_store"
    /\ \E e \in StoreInto(head, t) :
          kb_event_buffer' = [kb_event_buffer EXCEPT ![head] = e]
    /\ pushed' = Append(pushed, ev[t])
    /\ queue' = Append(queue, ev[t])
    /\ slot_live' = [slot_live EXCEPT ![head] = TRUE]
    /\ Goto(t, "lf_advance")
    /\ UNCHANGED <<head, tail, kb_event_sem, next_head, ev, lock_free_frame>>

\* head = next_head.
LockFreePushAdvance(t) ==
    /\ Running
    /\ pc[t] = "lf_advance"
    /\ head' = next_head[t]
    /\ Goto(t, "lf_post")
    /\ UNCHANGED <<tail, kb_event_buffer, kb_event_sem, next_head, ev, pushed,
                   slot_live, queue, lock_free_frame>>

\* sem_post(&kb_event_sem), and the return to the read loop.
LockFreePushPost(t) ==
    /\ Running
    /\ pc[t] = "lf_post"
    /\ kb_event_sem' = kb_event_sem + 1
    /\ ev' = [ev EXCEPT ![t] = ZeroEvent]
    /\ Goto(t, "read")
    /\ UNCHANGED <<head, tail, kb_event_buffer, next_head, pushed, slot_live, queue,
                   lock_free_frame>>

LockFreePush(t) ==
    \/ LockFreePushLoad(t)
    \/ LockFreePushFull(t)
    \/ LockFreePushCheck(t)
    \/ LockFreePushStore(t)
    \/ LockFreePushAdvance(t)
    \/ LockFreePushPost(t)

\* read(mouse_fd, &ev, sizeof(ev)) returns one event: a side button is copied
\* to kb_ev with the modifier's code and pushed, motion is scaled, and
\* everything but the side buttons is written to the mouse output.
LockFreeMouseRead(events, more) ==
    /\ Running
    /\ pc["mouse"] = "read"
    /\ more
    /\ \E raw \in events :
          LET e == Stamp(raw, "mouse", Len(mouse_in) + 1)
              side == raw.type = EV_KEY /\ raw.code \in {BTN_SIDE, BTN_EXTRA}
              r == IF raw.type \in {EV_KEY, EV_REL}
                   THEN Translate(e, accum_x, accum_y)
                   ELSE [ev |-> e, accum_x |-> accum_x, accum_y |-> accum_y]
          IN  /\ mouse_in' = Append(mouse_in, raw)
              /\ ev' = [ev EXCEPT !["mouse"] = r.ev]
              /\ accum_x' = r.accum_x
              /\ accum_y' = r.accum_y
              /\ Goto("mouse", IF side THEN "lf_load" ELSE "write")
    /\ UNCHANGED <<proc, main, dropped, transport, recovery, mouse_out, kb_in, kb_out,
                   sem_value, current_tail, ghost>>

\* read(kb_fd, &ev, sizeof(ev)) returns one event; it is pushed as read.
LockFreeKbRead(events, more) ==
    /\ Running
    /\ pc["kbi"] = "read"
    /\ more
    /\ \E raw \in events :
          /\ kb_in' = Append(kb_in, raw)
          /\ ev' = [ev EXCEPT !["kbi"] = Stamp(raw, "kbi", Len(kb_in) + 1)]
    /\ Goto("kbi", "lf_load")
    /\ UNCHANGED <<proc, main, dropped, transport, recovery, mouse_local, kb_out,
                   sem_value, current_tail, ghost>>

\* What a read of slot s yields while a producer copies into it.
LockFreeReadSlot(s) ==
    IF \E t \in Producers : pc[t] = "lf_store" /\ head = s
    THEN UNION { Mix(kb_event_buffer[s], ev[t]) :
                    t \in {u \in Producers : pc[u] = "lf_store"} }
    ELSE {kb_event_buffer[s]}

\* struct input_event ev = kb_event_buffer[tail].
LockFreeOutRead ==
    /\ Running
    /\ pc["kbo"] = "o_read"
    /\ current_tail' = tail
    /\ \E e \in LockFreeReadSlot(tail) : ev' = [ev EXCEPT !["kbo"] = e]
    /\ slot_live' = [slot_live EXCEPT ![tail] = FALSE]
    /\ Goto("kbo", "o_write")
    /\ UNCHANGED <<proc, main, dropped, transport, recovery, mouse_local, kb_in, kb_out,
                   sem_value, pushed, stale, queue>>

LockFreeReads == Len(mouse_in) + Len(kb_in)

LockFreeNext ==
    \/ \E t \in Producers : LockFreePush(t)
    \/ LockFreeMouseRead({Raw(EV_KEY, BTN_SIDE, 1), Raw(EV_KEY, BTN_LEFT, 1)},
                         LockFreeReads < MaxLockFreeReads)
    \/ MouseWrite
    \/ LockFreeKbRead({Raw(EV_KEY, KEY_A, 1)}, LockFreeReads < MaxLockFreeReads)
    \/ OutWait
    \/ LockFreeOutRead
    \/ OutWrite

SpecLockFree == InitLockFree /\ [][LockFreeNext]_vars

(***************************************************************************)
(* Observations the claims are stated with.                                *)
(***************************************************************************)
\* The device that produced event e, and e's position in that device's stream.
Source(e) == e.time[1]

Position(e) == e.time[2]

\* The events of device src appear in log in the order the device produced
\* them, none of them twice.
InSourceOrder(log, src) ==
    \A i, j \in 1 .. Len(log) :
        (i < j /\ Source(log[i]) = src /\ Source(log[j]) = src)
            => Position(log[i]) < Position(log[j])

\* How many times the event stamped <<src, n>> appears in log.
Occurrences(log, src, n) ==
    Cardinality({i \in 1 .. Len(log) : log[i].time = <<src, n>>})

\* C1: the events of one source are observed at each sink in the order the
\* source produced them, without reordering and without duplication: keyboard
\* events and routed pointing-device events at the keyboard sink,
\* pointing-device events at the pointer sink.
C1_OrderPreserved ==
    /\ InSourceOrder(kb_out, "kbi")
    /\ InSourceOrder(kb_out, "mouse")
    /\ InSourceOrder(mouse_out, "mouse")

\* The stamps of the events stored before clear_keyboard_buffer last returned.
StaleStamps == {pushed[i].time : i \in 1 .. stale}

\* clear_keyboard_buffer returns to keyboard_process_i.
ClearReturns == pc["kbi"] = "c_unlock" /\ pc'["kbi"] = "reopen"

\* The OUTPUT thread takes an event out of the ring buffer.
Dequeues == pc["kbo"] = "o_read" /\ pc'["kbo"] = "o_write"

\* C2: when clear_keyboard_buffer returns, head equals tail and the semaphore
\* is 0, and no event stored before it returned is taken out of the buffer,
\* and so written to the keyboard sink, after it returned.
C2_PurgeDiscardsPending ==
    [][ /\ ClearReturns => (head' = tail' /\ kb_event_sem' = 0)
        /\ Dequeues => ev'["kbo"].time \notin StaleStamps ]_vars

\* No thread is inside a push, a purge or a delivery, and the semaphore is 0:
\* nothing is delivered from here on unless a device is read again.
Quiet ==
    /\ Running
    /\ pc["mouse"] = "read"
    /\ pc["kbi"] = "read"
    /\ pc["kbo"] = "o_wait"
    /\ kb_event_sem = 0

IsPress(raw, button) == raw = Raw(EV_KEY, button, 1)

IsRelease(raw, button) == raw = Raw(EV_KEY, button, 0)

\* RemapRule: the modifier a side button is mapped to.
Modifier(button) == IF button = BTN_SIDE THEN KEY_LEFTSHIFT ELSE KEY_LEFTCTRL

\* The place of the event stamped <<src, n>> in log (0 when it is not there).
PlaceOf(log, src, n) ==
    IF \E i \in 1 .. Len(log) : log[i].time = <<src, n>>
    THEN CHOOSE i \in 1 .. Len(log) : log[i].time = <<src, n>>
    ELSE 0

\* The i-th event of the pointing device is on the keyboard output exactly
\* once, as the event e.
DeliveredOnceAs(i, e) ==
    /\ Occurrences(kb_out, "mouse", i) = 1
    /\ kb_out[PlaceOf(kb_out, "mouse", i)] = e

\* C5: a press of a remapped button followed by its release yields exactly
\* the modifier's press and then its release on the keyboard output, the
\* value kept, and the button's code never appears on the pointer output.
C5_SideButtonRemapped ==
    /\ \A k \in 1 .. Len(mouse_out) :
          ~(mouse_out[k].type = EV_KEY /\ mouse_out[k].code \in {BTN_SIDE, BTN_EXTRA})
    /\ Quiet =>
          \A b \in {BTN_SIDE, BTN_EXTRA} : \A i, j \in 1 .. Len(mouse_in) :
              (i < j /\ IsPress(mouse_in[i], b) /\ IsRelease(mouse_in[j], b)) =>
                  /\ DeliveredOnceAs(i, Event(EV_KEY, Modifier(b), 1, "mouse", i))
                  /\ DeliveredOnceAs(j, Event(EV_KEY, Modifier(b), 0, "mouse", j))
                  /\ PlaceOf(kb_out, "mouse", i) < PlaceOf(kb_out, "mouse", j)

\* C6: every EV_SYN read from the pointing device is written exactly once,
\* unchanged, to the pointer output and delivered exactly once, unchanged, to
\* the keyboard output.
C6_SyncOnBothOutputs ==
    Quiet =>
        \A i \in 1 .. Len(mouse_in) :
            mouse_in[i].type = EV_SYN =>
                /\ Occurrences(mouse_out, "mouse", i) = 1
                /\ mouse_out[PlaceOf(mouse_out, "mouse", i)] = Stamp(mouse_in[i], "mouse", i)
                /\ DeliveredOnceAs(i, Stamp(mouse_in[i], "mouse", i))

\* The event e is on the keyboard output.
Delivered(e) == \E k \in 1 .. Len(kb_out) : kb_out[k] = e

\* C7: a modifier press of the pointing device that was delivered to the
\* keyboard sink is followed by the delivery of its release, once the
\* pointing device has produced it, a recovery of the keyboard in between or
\* not: when nothing is left to deliver, the release has been delivered.
C7_ReleaseFollowsPress ==
    Quiet =>
        \A b \in {BTN_SIDE, BTN_EXTRA} : \A i, j \in 1 .. Len(mouse_in) :
            ( /\ i < j
              /\ IsPress(mouse_in[i], b)
              /\ IsRelease(mouse_in[j], b)
              /\ Delivered(Event(EV_KEY, Modifier(b), 1, "mouse", i)) )
                => Delivered(Event(EV_KEY, Modifier(b), 0, "mouse", j))

\* C8: on the keyboard output, between an event of a frame of one source and
\* the EV_SYN that closes that frame, there is no event of the other source.
C8_FramesNotInterleaved ==
    \A i, j \in 1 .. Len(kb_out) :
        ( /\ i < j
          /\ Source(kb_out[i]) \in Producers
          /\ kb_out[i].type # EV_SYN
          /\ Source(kb_out[j]) \in Producers \ {Source(kb_out[i])} )
            => \E m \in (i + 1) .. (j - 1) :
                  Source(kb_out[m]) = Source(kb_out[i]) /\ kb_out[m].type = EV_SYN

\* Entries stored by a push that the consumer has not read and no purge has
\* discarded.
PendingEntries == Cardinality({s \in Slots : slot_live[s]})

\* C3: the write cursor never laps the read cursor: the stored, undelivered
\* entries are never more than EVENT_BUFFER_SIZE - 1, and a push never stores
\* into a slot whose entry the consumer has not read yet.
C3_WriteNeverLapsRead ==
    /\ PendingEntries <= EVENT_BUFFER_SIZE - 1
    /\ \A t \in Producers : pc[t] = "p_store" => ~slot_live[head]

\* Thread t, which called send_input_event_to_keyboard, takes its mutex.
PushEnters(t) ==
    /\ pc[t] = "p_lock"
    /\ pc'[t] # "p_lock" \/ kb_buffer_mutex' = t \/ proc' # proc

\* C4: with EVENT_BUFFER_SIZE - 1 entries pending, a push exits the process
\* with status 1 and stores no event, does not advance head, does not post the
\* semaphore and leaves the pending entries as they are.
C4_OverflowIsFatal ==
    [][ \A t \in Producers :
          (PendingEntries = EVENT_BUFFER_SIZE - 1 /\ PushEnters(t)) =>
              /\ proc' = "exit1"
              /\ head' = head
              /\ kb_event_buffer' = kb_event_buffer
              /\ kb_event_sem' = kb_event_sem
              /\ pushed' = pushed
              /\ slot_live' = slot_live ]_vars

RECURSIVE SumValues(_, _)
\* The sum of the values of the EV_REL events of axis `code` in log.
SumValues(log, code) ==
    IF log = << >> THEN 0
    ELSE SumValues(Tail(log), code)
            + (IF Head(log).type = EV_REL /\ Head(log).code = code
               THEN Head(log).value ELSE 0)

\* C9: with DPI_SCALE 0.5, after every REL_X (REL_Y) event of one connection
\* the sum of the emitted deltas is within 0.5 of the sum of the raw values
\* times 0.5, the difference is the accumulator, and the sum of the emitted
\* deltas is within 1 of that product rounded. Quantities are in halves.
C9_MotionFidelity ==
    pc["mouse"] = "read" =>
        \A axis \in {REL_X, REL_Y} :
            LET true_halves == SumValues(mouse_in, axis) * DPI_SCALE_HALVES
                emitted == SumValues(mouse_out, axis)
                accum == IF axis = REL_X THEN accum_x ELSE accum_y
            IN  /\ Abs(true_halves - 2 * emitted) <= 1
                /\ true_halves - 2 * emitted = accum
                /\ Abs(emitted - roundf(true_halves)) <= 1

\* Where a thread is while it recovers from a failed read.
RecoveryLabels == {"c_lock", "c_get", "c_try", "c_unlock", "reopen"}

\* The first step of the recovery of thread t: the keyboard INPUT thread
\* clears the buffer and reopens, the mouse thread reopens.
RecoveryEntry(t) == IF t = "kbi" THEN "c_lock" ELSE "reopen"

\* read() of thread t fails in this step.
ReadFails(t) == pc[t] = "read" /\ err'[t] # "none"

\* Thread t takes a step of its recovery.
Recovers(t) == pc[t] \in RecoveryLabels /\ pc'[t] # pc[t]

\* C10: a failed read of a device that was acquired, whatever its class, does
\* not end the thread or the process: the thread enters the one recovery path
\* of its device, every step of the recovery keeps it on that path or takes it
\* back to the read, and a thread that acquired its device never exits.
C10_ReadFailureRecovers ==
    [][ \A t \in Producers :
          /\ ReadFails(t) => (pc'[t] = RecoveryEntry(t) /\ proc' = "running")
          /\ Recovers(t) => (pc'[t] \in RecoveryLabels \cup {"read"} /\ proc' = "running")
          /\ nopen[t] > 0 => pc'[t] # "exited" ]_vars

\* Both threads are back at the read of a reopened device, each after a
\* failed read, the keyboard after a purge and a failed pass of the retry in
\* between.
C10_Witness ==
    /\ Running
    /\ \A t \in Producers : pc[t] = "read" /\ fd[t] >= 2 /\ nfail[t] >= 1
    /\ nretry["kbi"] >= 1
    /\ consecutive_failures["kbi"] = 0

\* C11: when find_event_device fails for either device at startup, main
\* returns a nonzero status at once: the locate is not tried again, no
\* virtual device has been created and no thread has been started.
C11_LocateFailureExits ==
    [][ (main \in LocateLabels) =>
          /\ \/ proc' = "running" /\ main' = NextLabel(main)
             \/ proc' = "return1" /\ main' = main
          /\ \A t \in Threads : pc'[t] = "unborn"
          /\ ~VirtualDevicesCreated' ]_vars

\* The pointing device was found, the keyboard was not, and main returned 1.
C11_Witness ==
    /\ main = "find_kb"
    /\ proc = "return1"
    /\ \A t \in Threads : pc[t] = "unborn"

\* C12: a worker thread that was started does not end while the process
\* runs, also when its first find_open_and_grab_device fails.
C12_ThreadsLiveWithProcess ==
    Running => \A t \in Threads : pc[t] # "exited"

\* The events of the keyboard whose push has stored them: all that were read,
\* but the one the INPUT thread is about to store.
KbStored ==
    Len(kb_in) - (IF pc["kbi"] \in {"p_lock", "p_store"} THEN 1 ELSE 0)

\* C13: every event read from the keyboard is pushed to the ring buffer once,
\* its type, code and value as read, and no event of the keyboard is written
\* to the pointer output.
C13_KeyboardEventsUnchanged ==
    /\ \A i \in 1 .. KbStored :
          /\ Occurrences(pushed, "kbi", i) = 1
          /\ pushed[PlaceOf(pushed, "kbi", i)] = Stamp(kb_in[i], "kbi", i)
    /\ \A i \in (KbStored + 1) .. Len(kb_in) : Occurrences(pushed, "kbi", i) = 0
    /\ \A k \in 1 .. Len(mouse_out) : Source(mouse_out[k]) # "kbi"

\* The keyboard INPUT thread has pushed an event and reads again, and the
\* mouse thread has written an event to the pointer output.
C13_Witness ==
    /\ Running
    /\ pc["kbi"] = "read"
    /\ Len(kb_in) >= 1
    /\ Occurrences(pushed, "kbi", Len(kb_in)) = 1
    /\ Len(mouse_out) >= 1

\* The write of thread t fails in this step.
WriteFails(t) == dropped'[t] # dropped[t]

\* C14: a failed write to a virtual device does not end the thread or the
\* process and is not tried again: the event is on no output, the thread goes
\* on to its next event, and the OUTPUT thread has moved tail by one.
C14_WriteFailureDrops ==
    [][ /\ WriteFails("mouse") =>
              /\ proc' = "running"
              /\ pc'["mouse"] = "read"
              /\ mouse_out' = mouse_out
        /\ WriteFails("kbo") =>
              /\ proc' = "running"
              /\ pc'["kbo"] = "o_wait"
              /\ kb_out' = kb_out
              /\ tail' = (tail + 1) % EVENT_BUFFER_SIZE
        /\ \A k \in 1 .. Len(mouse_out') :
              \A d \in 1 .. Len(dropped'["mouse"]) :
                  mouse_out'[k].time # dropped'["mouse"][d].time
        /\ \A k \in 1 .. Len(kb_out') :
              \A d \in 1 .. Len(dropped'["kbo"]) :
                  kb_out'[k].time # dropped'["kbo"][d].time ]_vars

\* Both threads lost an event to a failed write, and the OUTPUT thread
\* delivered the event stored after the one it lost.
C14_Witness ==
    /\ Running
    /\ Len(dropped["mouse"]) >= 1
    /\ Len(pushed) >= 2
    /\ dropped["kbo"] = <<pushed[1]>>
    /\ kb_out = <<pushed[2]>>

\* main has created the three threads.
AllStarted == main \in JoinLabels \cup {"cleanup"}

\* C15: the process never exits with status 0; once the three threads run,
\* the only exit is exit(1) in send_input_event_to_keyboard; a device that is
\* not found at startup makes main return nonzero.
C15_ExitsOnlyOnOverflow ==
    /\ proc # "return0"
    /\ AllStarted => proc \in {"running", "exit1"}
    /\ (main \in LocateLabels /\ ~Running) => proc = "return1"

\* The three threads were started and a push has exited the process.
C15_Witness ==
    /\ AllStarted
    /\ proc = "exit1"
    /\ \E t \in Producers : pc[t] = "p_lock" /\ kb_buffer_mutex = t

\* The event the OUTPUT thread has copied out of its slot and not written yet.
InHand == IF pc["kbo"] = "o_write" THEN 1 ELSE 0

\* C16: exit(1) in send_input_event_to_keyboard is taken only when
\* EVENT_BUFFER_SIZE - 1 events are stored and undelivered (in their slots, or
\* in the hand of the OUTPUT thread), whatever purge came before.
C16_OverflowOnlyWhenFull ==
    proc = "exit1" => PendingEntries + InHand = EVENT_BUFFER_SIZE - 1

\* Distance from the read cursor to the write cursor.
CursorDistance == (head - tail + EVENT_BUFFER_SIZE) % EVENT_BUFFER_SIZE

\* Events the OUTPUT thread has claimed (sem_wait returned) and not dequeued
\* (tail not stored yet).
Claimed == IF pc["kbo"] \in {"o_read", "o_write"} THEN 1 ELSE 0

\* C17: the semaphore never counts more than is stored: its value plus the
\* claimed, not yet dequeued events is at most (head - tail) mod
\* EVENT_BUFFER_SIZE, and the OUTPUT thread never reads the slot at head.
\* The states in which clear_keyboard_buffer holds the mutex, between its
\* head = tail and the end of its drain, are left out.
C17_SemaphoreNeverOvercounts ==
    pc["kbi"] \notin {"c_get", "c_try", "c_unlock"} =>
        /\ kb_event_sem + Claimed <= CursorDistance
        /\ pc["kbo"] = "o_read" => tail # head

\* C18: an event that was stored and not discarded by a purge is written to
\* the keyboard sink in the end. With the threads scheduled fairly and no
\* further input, nothing wakes the OUTPUT thread once it waits on a semaphore
\* of 0 and no post is outstanding: no stored entry is left then.
C18_StoredIsDelivered ==
    ( /\ Running
      /\ pc["kbo"] = "o_wait"
      /\ kb_event_sem = 0
      /\ \A t \in Producers : pc[t] \in {"read", "write", "reopen", "exited"} )
        => PendingEntries = 0

\* Thread t takes a step of send_input_event_to_keyboard.
PushSteps(t) ==
    /\ pc[t] \in {"p_lock", "p_store", "p_post"}
    /\ pc'[t] # pc[t] \/ proc' # proc

\* The OUTPUT thread takes a step.
PopSteps == pc'["kbo"] # pc["kbo"]

\* The INPUT thread takes a step of clear_keyboard_buffer.
PurgeSteps ==
    /\ pc["kbi"] \in {"c_lock", "c_get", "c_try", "c_unlock"}
    /\ pc'["kbi"] # pc["kbi"]

\* C19: a push does not change tail, a pop does not change head, a purge
\* changes neither tail nor a slot of the buffer, and head changes only in a
\* step of a thread that holds the mutex.
C19_CursorOwnership ==
    [][ /\ \A t \in Producers : PushSteps(t) => tail' = tail
        /\ PopSteps => head' = head
        /\ PurgeSteps => (tail' = tail /\ kb_event_buffer' = kb_event_buffer)
        /\ head' # head =>
              (kb_buffer_mutex \in Producers \/ kb_buffer_mutex' \in Producers) ]_vars

\* A purge has moved head back over a stored event after the OUTPUT thread
\* had delivered one, and tail is where the OUTPUT thread left it.
C19_Witness ==
    /\ pc["kbi"] = "reopen"
    /\ stale >= 2
    /\ Len(kb_out) = 1
    /\ tail = 1
    /\ head = 1

\* Thread t is recovering, or about to read a handle it does not have.
Recovering(t) == pc[t] \in RecoveryLabels \/ (pc[t] = "read" /\ fd[t] < 0)

\* Thread t reads its device again.
Reading(t) == pc[t] = "read" /\ fd[t] >= 0

ClearLabels == {"c_lock", "c_get", "c_try", "c_unlock"}

\* Where a thread is in reopen_device.
ReopenLabels == {"reopen", "r_find", "r_open", "r_grab"}

\* The handles of thread t change hands: one is opened, grabbed, released or
\* closed, or the thread's fd is assigned.
HandleSteps(t) ==
    \/ fd'[t] # fd[t]
    \/ open_fds'[t] # open_fds[t]
    \/ grabbed'[t] # grabbed[t]
    \/ closed'[t] # closed[t]

\* C21: a failed read of the keyboard starts clear_keyboard_buffer and leaves
\* the handle alone; reopen_device of the keyboard is entered from the end of
\* clear_keyboard_buffer only, after the drain loop has seen the semaphore at
\* 0, and only reopen_device releases, finds, opens and grabs; the mouse
\* thread goes from a failed read to reopen_device and never touches the
\* transport on the way; head is set back and the semaphore is drained by the
\* keyboard INPUT thread only, in its recovery.
C21_PurgeBeforeRelease ==
    [][ /\ ReadFails("kbi") =>
              (pc'["kbi"] = "c_lock" /\ ~HandleSteps("kbi"))
        /\ (pc["kbi"] = "c_lock" /\ pc'["kbi"] # "c_lock") =>
              (pc'["kbi"] = "c_get" /\ head' = tail)
        /\ (pc'["kbi"] = "reopen" /\ pc["kbi"] # "reopen") =>
              (pc["kbi"] = "c_unlock" /\ sem_value = 0 /\ kb_buffer_mutex = "kbi")
        /\ (HandleSteps("kbi") /\ ~AtStart("kbi")) => pc["kbi"] \in ReopenLabels
        /\ (pc'["kbi"] = "r_find" /\ pc["kbi"] # "r_find") => pc["kbi"] = "reopen"
        /\ ReadFails("mouse") => pc'["mouse"] = "reopen"
        /\ (pc["mouse"] \in ReopenLabels /\ pc'["mouse"] # pc["mouse"]) =>
              (pc'["mouse"] \in ReopenLabels \cup {"read"} /\ UNCHANGED transport)
        /\ \A t \in {"mouse", "kbo"} : pc'[t] \notin ClearLabels
        /\ (head' # head /\ \A t \in Producers : ~PushSteps(t)) =>
              (pc["kbi"] = "c_lock" /\ err["kbi"] # "none")
        /\ (kb_event_sem' < kb_event_sem /\ ~PopSteps) =>
              (pc["kbi"] = "c_try" /\ err["kbi"] # "none") ]_vars

\* The keyboard's failed handle has been closed after a purge that discarded
\* a stored event, and the device is found again; the mouse has failed a read
\* as well.
C21_Witness ==
    /\ pc["kbi"] = "r_open"
    /\ closed["kbi"] = <<1>>
    /\ stale >= 1
    /\ nfail["mouse"] >= 1


\* The handles thread t is bound to: its fd, when it has one.
Bound(t) == IF fd[t] >= 0 THEN {fd[t]} ELSE {}

\* No handle was passed to close() twice by thread t.
ClosedOnce(t) ==
    \A i, j \in 1 .. Len(closed[t]) : i # j => closed[t][i] # closed[t][j]

\* C22: a connection has at most one handle open; outside open_and_grab_device
\* the open handle is the one the thread's fd names, and it holds the grab;
\* inside, between open() and the grab, the thread's fd names none. No handle
\* is closed twice and a closed handle is not open. A handle is opened only
\* when the connection has none open, grabbed or bound; a rejected grab
\* closes the handle it was asked for in the same step; a failed
\* re-acquisition leaves fd = -1 and nothing open, and the release of the
\* next recovery pass closes nothing then.
C22_NoHandleLeak ==
    /\ [](\A t \in Producers :
             /\ Cardinality(open_fds[t]) <= 1
             /\ grabbed[t] \subseteq open_fds[t]
             /\ ClosedOnce(t)
             /\ \A i \in 1 .. Len(closed[t]) : closed[t][i] \notin open_fds[t]
             /\ pc[t] \notin GrabLabels =>
                   (open_fds[t] = Bound(t) /\ grabbed[t] = Bound(t))
             /\ pc[t] \in GrabLabels =>
                   (open_fds[t] = {local_fd[t]} /\ grabbed[t] = {} /\ fd[t] = -1)
             /\ pc[t] = "exited" => open_fds[t] = {})
    /\ [][ \A t \in Producers :
             /\ open_fds'[t] \ open_fds[t] # {} =>
                   (open_fds[t] = {} /\ grabbed[t] = {} /\ fd[t] = -1)
             /\ (pc[t] \in GrabLabels /\ pc'[t] \notin GrabLabels /\ fd'[t] = -1) =>
                   (open_fds'[t] = {} /\ closed'[t] = Append(closed[t], local_fd[t]))
             /\ closed'[t] # closed[t] =>
                   \E h \in open_fds[t] :
                      closed'[t] = Append(closed[t], h) /\ h \notin open_fds'[t]
             /\ (pc[t] \in ReopenLabels /\ pc'[t] = "read" /\ nretry'[t] > nretry[t]) =>
                   (fd'[t] = -1 /\ open_fds'[t] = {})
             /\ (pc[t] = "reopen" /\ fd[t] < 0 /\ pc'[t] # pc[t]) =>
                   closed'[t] = closed[t] ]_vars

\* The keyboard reads its third handle: the first failed a read and was
\* released, the grab of the second was rejected, and the recovery pass after
\* that started unbound.
C22_Witness ==
    /\ pc["kbi"] = "read"
    /\ fd["kbi"] = 3
    /\ closed["kbi"] = <<1, 2>>
    /\ nretry["kbi"] = 1
    /\ open_fds["kbi"] = {3}


\* The mouse thread reads an event in this step.
MouseReads == Len(mouse_in') = Len(mouse_in) + 1

\* The event the mouse thread reads in this step.
EventRead == mouse_in'[Len(mouse_in')]

\* The mouse thread leaves reopen_device with a handle in this step.
MouseReconnects ==
    pc["mouse"] \in ReopenLabels /\ pc'["mouse"] = "read" /\ fd'["mouse"] >= 0

\* C23: accum_x changes only when a REL_X event is read, to what the scaling
\* of that event leaves in it, and when a reconnection of the mouse succeeds;
\* accum_y likewise with REL_Y. A successful reconnection sets both to 0. A
\* failed read, a failed re-acquisition, an event of another type or code and
\* an event on the other axis leave an accumulator as it is.
C23_AccumulatorFrame ==
    [][ /\ accum_x' # accum_x =>
              \/ MouseReads /\ EventRead.type = EV_REL /\ EventRead.code = REL_X
              \/ MouseReconnects
        /\ accum_y' # accum_y =>
              \/ MouseReads /\ EventRead.type = EV_REL /\ EventRead.code = REL_Y
              \/ MouseReconnects
        /\ MouseReconnects => (accum_x' = 0 /\ accum_y' = 0)
        /\ (MouseReads /\ EventRead.type = EV_REL /\ EventRead.code = REL_X) =>
              (accum_x' = ScaleStep(accum_x, EventRead.value).accum /\ accum_y' = accum_y)
        /\ (MouseReads /\ EventRead.type = EV_REL /\ EventRead.code = REL_Y) =>
              (accum_y' = ScaleStep(accum_y, EventRead.value).accum /\ accum_x' = accum_x)
        /\ (MouseReads /\ ~(EventRead.type = EV_REL /\ EventRead.code \in {REL_X, REL_Y})) =>
              UNCHANGED <<accum_x, accum_y>>
        /\ (ReadFails("mouse") \/ nretry'["mouse"] # nretry["mouse"]) =>
              UNCHANGED <<accum_x, accum_y>> ]_vars

\* The mouse reads its second handle with both accumulators at 0, after an
\* event on X that left half a unit in accum_x on the first.
C23_Witness ==
    /\ pc["mouse"] = "read"
    /\ fd["mouse"] = 2
    /\ mouse_in = <<Raw(EV_REL, REL_X, 1)>>
    /\ mouse_out # << >>
    /\ accum_x = 0
    /\ accum_y = 0


\* The mouse thread is done with the i-th event it read.
Handled(i) == i < Len(mouse_in) \/ (i = Len(mouse_in) /\ pc["mouse"] = "read")

\* How often the i-th event of the pointing device was stored in the ring
\* buffer, and how often it was handed to the write of the pointer output,
\* whether the write took it or refused it.
ToKeyboard(i) == Occurrences(pushed, "mouse", i)

ToPointer(i) ==
    Occurrences(mouse_out, "mouse", i) + Occurrences(dropped["mouse"], "mouse", i)

\* The event stamped <<"mouse", i>> in the one of the two logs that has it.
FoundIn(log1, log2, i) ==
    IF PlaceOf(log1, "mouse", i) > 0
    THEN log1[PlaceOf(log1, "mouse", i)]
    ELSE log2[PlaceOf(log2, "mouse", i)]

\* The scan constant a mapped scan constant is rewritten to.
ScanTarget(v) == IF v = SCAN_BTN_SIDE THEN SCAN_KEY_SHIFT ELSE SCAN_KEY_CTRL

IsScan(raw) == raw.type = EV_MSC /\ raw.code = MSC_SCAN

IsMappedScan(raw) == IsScan(raw) /\ raw.value \in {SCAN_BTN_SIDE, SCAN_BTN_EXTRA}

\* C24: an MSC_SCAN event of the pointing device whose value is 0x90004 or
\* 0x90005 is stored in the ring buffer once, with the value 0x70004 or
\* 0x70005 and nothing else changed, and is never handed to the pointer
\* output; an MSC_SCAN event with another value is handed to the pointer
\* output once, unchanged, and is never stored in the ring buffer.
C24_ScanRouting ==
    \A i \in 1 .. Len(mouse_in) :
        (Handled(i) /\ IsScan(mouse_in[i])) =>
            IF IsMappedScan(mouse_in[i])
            THEN /\ ToKeyboard(i) = 1
                 /\ ToPointer(i) = 0
                 /\ pushed[PlaceOf(pushed, "mouse", i)] =
                       Event(EV_MSC, MSC_SCAN, ScanTarget(mouse_in[i].value), "mouse", i)
            ELSE /\ ToKeyboard(i) = 0
                 /\ ToPointer(i) = 1
                 /\ FoundIn(mouse_out, dropped["mouse"], i) = Stamp(mouse_in[i], "mouse", i)

\* Both mapped scan codes and an unmapped one have been handled, and the
\* OUTPUT thread has written a rewritten one.
C24_Witness ==
    /\ pc["mouse"] = "read"
    /\ mouse_in = << Raw(EV_MSC, MSC_SCAN, SCAN_BTN_SIDE),
                     Raw(EV_MSC, MSC_SCAN, SCAN_BTN_LEFT),
                     Raw(EV_MSC, MSC_SCAN, SCAN_BTN_EXTRA) >>
    /\ Len(pushed) = 2
    /\ Len(mouse_out) = 1
    /\ kb_out # << >>

\* The events no rule of the switch rewrites or sends elsewhere.
PassesThrough(raw) ==
    /\ raw.type # EV_SYN
    /\ ~(raw.type = EV_KEY /\ raw.code \in {BTN_SIDE, BTN_EXTRA})
    /\ ~(raw.type = EV_REL /\ raw.code \in {REL_X, REL_Y})
    /\ ~IsMappedScan(raw)

\* C25: an event of the pointing device that is no frame marker is stored in
\* the ring buffer or handed to the pointer output, once, and not both; an
\* event no rule applies to is handed to the pointer output as it was read.
\* (A write the pointer output refuses drops the event, C14.)
C25_OneDestination ==
    \A i \in 1 .. Len(mouse_in) :
        Handled(i) =>
            /\ mouse_in[i].type # EV_SYN => ToKeyboard(i) + ToPointer(i) = 1
            /\ PassesThrough(mouse_in[i]) =>
                  /\ ToPointer(i) = 1
                  /\ FoundIn(mouse_out, dropped["mouse"], i) = Stamp(mouse_in[i], "mouse", i)

\* An unmapped button, a non-scan MSC event and an event of a type the switch
\* has no case for are on the pointer output, as read.
C25_Witness ==
    /\ pc["mouse"] = "read"
    /\ mouse_in = << Raw(EV_KEY, BTN_RIGHT, 0),
                     Raw(EV_MSC, MSC_SERIAL, SCAN_BTN_SIDE),
                     Raw(EV_ABS, REL_X, 5) >>
    /\ Len(mouse_out) = 3
    /\ pushed = << >>


\* The slots from tail up to head, oldest first.
StoredSlots ==
    [i \in 1 .. CursorDistance |-> kb_event_buffer[(tail + i - 1) % EVENT_BUFFER_SIZE]]

\* C26: the ring buffer stands for a bounded queue to which a push appends,
\* from which a pop takes the oldest element and which a purge empties: at
\* every step the slots from tail up to head are the elements of the queue,
\* oldest first, and the event the OUTPUT thread has copied and is about to
\* release the slot of is the oldest element of the queue.
C26_RefinesQueue ==
    /\ StoredSlots = queue
    /\ Len(queue) <= EVENT_BUFFER_SIZE - 1
    /\ pc["kbo"] = "o_write" => (queue # << >> /\ ev["kbo"] = queue[1])


\* Producers that have copied their event and not stored head yet.
Advancing == Cardinality({t \in Producers : pc[t] = "lf_advance"})

\* Producers that have copied their event and not posted yet.
Posting == Cardinality({t \in Producers : pc[t] \in {"lf_advance", "lf_post"}})

\* C27: in the lock-free transport every push that is not dropped has its
\* own slot and moves head by one: the slots from tail up to head hold the
\* events copied into the buffer and not yet taken out, in the order they
\* were copied, none overwritten; and the semaphore has been posted once
\* for every event copied.
C27_LockFreePushesDisjoint ==
    /\ StoredSlots =
          SubSeq(pushed, Len(kb_out) + 1, Len(pushed) - Advancing)
    /\ kb_event_sem + Claimed + Len(kb_out) = Len(pushed) - Posting

=============================================================================
